---- MODULE Spec2Model ----
(***************************************************************************)
(* Model of backend/server.py (ConvoTalk): the in-memory ConnectionManager *)
(* (active_connections, user_connections), the websocket handler that     *)
(* drives it, and the broadcast fan-out.                                   *)
(*                                                                         *)
(* The server is one asyncio event loop: a coroutine runs without          *)
(* interruption between two awaits, so every action below is the code      *)
(* from one await to the next.                                             *)
(*                                                                         *)
(* active_connections is a Python dict.  It is modelled as CPython keeps   *)
(* it: the insertion-ordered entry array (a deleted entry stays as a       *)
(* tombstone) and the number of live entries, because broadcast iterates   *)
(* the live dict across awaits and the dict iterator's checks decide what  *)
(* happens when the dict changes under it.  The entry array is not         *)
(* compacted while it has at most 5 entries, which the bounds respect.     *)
(***************************************************************************)
EXTENDS Integers, Sequences, FiniteSets, TLC

\* ---------------------------------------------------------------- bounds
\* Number of websocket objects (accepted transport links) over a run.
MaxHandlers == 3
\* Number of inbound frames read by all receive loops together.
MaxFrames == 1
\* Number of direct calls of the manager's API in SpecApi.
MaxCalls == 4

Handlers == 1..MaxHandlers
Users == {"A", "B"}
NoConn == 0
NoUser == "-"
ConnIds == 1..MaxHandlers

\* ------------------------------------------------------- inbound frames
\* The texts a client sends, and what json.loads makes of each.
FramePing == "{\"type\":\"ping\"}"
FrameMessage == "{\"type\":\"message\",\"content\":\"hi\"}"
FrameOther == "{\"type\":\"typing\"}"
FrameNoType == "{\"content\":\"hi\"}"
FrameNotJson == "not json"
Frames == {FramePing, FrameMessage, FrameOther, FrameNoType, FrameNotJson}
FramePong == "{\"type\": \"pong\"}"

\* json.loads(data): the parsed object, or the exception it raises.
json_loads(data) ==
    CASE data = FramePing -> [exc |-> "", hasType |-> TRUE, type |-> "ping"]
      [] data = FrameMessage -> [exc |-> "", hasType |-> TRUE, type |-> "message"]
      [] data = FrameOther -> [exc |-> "", hasType |-> TRUE, type |-> "typing"]
      [] data = FrameNoType -> [exc |-> "", hasType |-> FALSE, type |-> ""]
      [] OTHER -> [exc |-> "JSONDecodeError", hasType |-> FALSE, type |-> ""]

\* A tag lookup that takes a ping for a chat message.
type_of_ping_as_message(message_data) ==
    IF message_data.hasType
    THEN [exc |-> "", type |-> IF message_data.type = "ping" THEN "message"
                               ELSE message_data.type]
    ELSE [exc |-> "KeyError", type |-> ""]

\* message_data["type"]: the tag, or KeyError.
type_of(message_data) ==
    IF message_data.hasType
    THEN [exc |-> "", type |-> message_data.type]
    ELSE [exc |-> "KeyError", type |-> ""]

\* What a failed transport write raises: starlette turns the server's
\* OSError into WebSocketDisconnect, older stacks raise their own error.
WriteErrors == {"WebSocketDisconnect", "ConnectionClosed"}

\* ------------------------------------------------------------ variables
VARIABLES
    active_connections,  \* the dict's entry array: <<[key, value]>>, key 0 = deleted
    user_connections,    \* user_id -> connection_id (NoConn: no entry)
    pc,                  \* each websocket handler's position
    h_user,              \* the handler's user_id path parameter
    h_cid,               \* the handler's local connection_id
    bc,                  \* the dict iterator and message of a running broadcast
    client_open,         \* whether the websocket's transport is still usable
    sent,                \* the texts written to each websocket, in order
    nextId,              \* stands for uuid.uuid4(): the next fresh id
    nFrames,             \* inbound frames read so far
    h_data,              \* the handler's local data: the last frame it read
    bhist,               \* history: per broadcast, the websockets registered when
                         \* it started and how it ended
    api,                 \* the last direct call of the manager and its result
                         \* (again: it repeats the call before it)
    db_users,            \* the store's users collection
    db_sessions,         \* the store's sessions collection
    db_messages,         \* the store's messages collection
    db_channels,         \* the store's channels collection
    now,                 \* the clock, datetime.now(timezone.utc)
    req,                 \* the HTTP requests being served
    nReqs,               \* HTTP requests started so far
    nextUser,            \* stands for uuid.uuid4() in User.id: the next fresh id
    issued,              \* the tokens the clients have been given
    revoked,             \* history: the tokens a logout has deleted a session of
    last                 \* the last HTTP response

httpvars == <<db_sessions, db_messages, db_channels, now, req, nReqs, nextUser,
              issued, revoked, last>>

vars == <<active_connections, user_connections, pc, h_user, h_cid, bc,
          client_open, sent, nextId, nFrames, h_data, bhist, api, db_users,
          httpvars>>

Tombstone == [key |-> NoConn, value |-> 0]
NoIter == [di_used |-> -1, di_pos |-> 0, len |-> 0, msg |-> "", bid |-> 0]
NoReq == [pc |-> "idle", op |-> "", cookie |-> [kind |-> "none", uid |-> NoUser, exp |-> 0],
          header |-> [kind |-> "none", uid |-> NoUser, exp |-> 0],
          token |-> [kind |-> "none", uid |-> NoUser, exp |-> 0],
          current_user |-> NoUser, wrote |-> FALSE, it |-> NoIter,
          email |-> "", username |-> "", password |-> "", uid |-> NoUser]
NoResponse == [n |-> 0, op |-> "", status |-> 0, current_user |-> NoUser,
               wrote |-> FALSE]
NoCall == [n |-> 0, op |-> "", user |-> NoUser, cid |-> NoConn, ret |-> "", exc |-> "",
           again |-> FALSE]

\* ------------------------------------------------------- dict operations
\* The keys of the dict.
Keys(ac) == {ac[i].key : i \in 1..Len(ac)} \ {NoConn}

\* len(dict): ma_used.
Used(ac) == Cardinality({i \in 1..Len(ac) : ac[i].key # NoConn})

\* dict[key], for a key of the dict.
ValueOf(ac, k) == ac[CHOOSE i \in 1..Len(ac) : ac[i].key = k].value

\* dict[key] = value for a key the dict does not hold: a new last entry.
dict_insert(ac, k, v) == Append(ac, [key |-> k, value |-> v])

\* del dict[key]: the entry becomes a tombstone.
dict_delete(ac, k) ==
    [i \in 1..Len(ac) |-> IF ac[i].key = k THEN Tombstone ELSE ac[i]]

\* An iterator that starts at the dict's second entry.
dict_iter_from_second(ac, msg, bid) ==
    [di_used |-> Used(ac), di_pos |-> 2, len |-> Used(ac), msg |-> msg, bid |-> bid]

\* iter(dict.values()): the iterator remembers the size it started with.
dict_iter(ac, msg, bid) ==
    [di_used |-> Used(ac), di_pos |-> 1, len |-> Used(ac), msg |-> msg, bid |-> bid]

\* The first live entry at or after position p (0: none).
NextLive(ac, p) ==
    IF \E i \in p..Len(ac) : ac[i].key # NoConn
    THEN CHOOSE i \in p..Len(ac) :
            /\ ac[i].key # NoConn
            /\ \A j \in p..(i - 1) : ac[j].key = NoConn
    ELSE 0

\* next(iterator), CPython's dictiter_iternextvalue: the size check comes
\* first, then the scan for the next live entry, then the check that the
\* iterator has not already yielded as many values as the dict had.
dict_next(it, ac) ==
    IF it.di_used # Used(ac)
    THEN [kind |-> "RuntimeError", value |-> 0, it |-> it]
    ELSE LET i == NextLive(ac, it.di_pos)
         IN  IF i = 0
             THEN [kind |-> "StopIteration", value |-> 0, it |-> it]
             ELSE IF it.len = 0
             THEN [kind |-> "RuntimeError", value |-> 0, it |-> it]
             ELSE [kind |-> "value", value |-> ac[i].value,
                   it |-> [it EXCEPT !.di_pos = i + 1, !.len = @ - 1]]

\* --------------------------------------------------- ConnectionManager
\* A connect that keeps the mapping of a user who already has one.
connect_keeps_first(ac, uc, connection_id, websocket, user_id) ==
    [ac |-> dict_insert(ac, connection_id, websocket),
     uc |-> IF uc[user_id] = NoConn THEN [uc EXCEPT ![user_id] = connection_id] ELSE uc]

\* A connect that rebuilds the user map from its own entry alone.
connect_rebuilds_map(ac, uc, connection_id, websocket, user_id) ==
    [ac |-> dict_insert(ac, connection_id, websocket),
     uc |-> [u \in Users |-> IF u = user_id THEN connection_id ELSE NoConn]]

\* A connect that evicts the connection the user was mapped to.
connect_evicts_superseded(ac, uc, connection_id, websocket, user_id) ==
    [ac |-> dict_insert(IF uc[user_id] \in Keys(ac)
                        THEN dict_delete(ac, uc[user_id]) ELSE ac,
                        connection_id, websocket),
     uc |-> [uc EXCEPT ![user_id] = connection_id]]

\* connect, after the await of websocket.accept(): both maps are written
\* with the fresh id, with no await in between.
connect(ac, uc, connection_id, websocket, user_id) ==
    [ac |-> dict_insert(ac, connection_id, websocket),
     uc |-> [uc EXCEPT ![user_id] = connection_id]]

\* A disconnect that removes the connection and leaves the user's entry.
disconnect_keeps_mapping(ac, uc, connection_id, user_id) ==
    [ac |-> IF connection_id \in Keys(ac) THEN dict_delete(ac, connection_id) ELSE ac,
     uc |-> uc]

\* A disconnect that, when the id is not in the connection map, evicts the
\* oldest connection instead.
disconnect_evicts_oldest(ac, uc, connection_id, user_id) ==
    [ac |-> IF connection_id \in Keys(ac) THEN dict_delete(ac, connection_id)
            ELSE IF NextLive(ac, 1) # 0 THEN dict_delete(ac, ac[NextLive(ac, 1)].key)
            ELSE ac,
     uc |-> IF uc[user_id] # NoConn THEN [uc EXCEPT ![user_id] = NoConn] ELSE uc]

\* disconnect: the id leaves the connection map if it is there, and the
\* user's entry is deleted if the user has one, whatever it points at.
disconnect(ac, uc, connection_id, user_id) ==
    [ac |-> IF connection_id \in Keys(ac) THEN dict_delete(ac, connection_id) ELSE ac,
     uc |-> IF uc[user_id] # NoConn THEN [uc EXCEPT ![user_id] = NoConn] ELSE uc]

\* websocket.send_text on an open transport: the text is written.
send_text(log, websocket, text, bid) ==
    [log EXCEPT ![websocket] = Append(@, [text |-> text, bid |-> bid])]

\* A send_personal_message that indexes the maps without testing them.
send_personal_message_unchecked(ac, uc, open, log, message, user_id) ==
    IF uc[user_id] # NoConn /\ uc[user_id] \in Keys(ac)
    THEN IF open[ValueOf(ac, uc[user_id])]
         THEN [ret |-> "None", exc |-> "", ac |-> ac, uc |-> uc,
               log |-> send_text(log, ValueOf(ac, uc[user_id]), message, 0)]
         ELSE [ret |-> "", exc |-> "WriteError", ac |-> ac, uc |-> uc, log |-> log]
    ELSE [ret |-> "", exc |-> "KeyError", ac |-> ac, uc |-> uc, log |-> log]

\* send_personal_message: both lookups are tested; the text is written only
\* when both hit; the function has no return statement, so a call that
\* does not raise returns None, delivered or not; it writes neither map.
send_personal_message(ac, uc, open, log, message, user_id) ==
    IF uc[user_id] # NoConn
    THEN LET connection_id == uc[user_id]
         IN  IF connection_id \in Keys(ac)
             THEN LET websocket == ValueOf(ac, connection_id)
                  IN  IF open[websocket]
                      THEN [ret |-> "None", exc |-> "", ac |-> ac, uc |-> uc,
                            log |-> send_text(log, websocket, message, 0)]
                      ELSE [ret |-> "", exc |-> "WriteError", ac |-> ac, uc |-> uc,
                            log |-> log]
             ELSE [ret |-> "None", exc |-> "", ac |-> ac, uc |-> uc, log |-> log]
    ELSE [ret |-> "None", exc |-> "", ac |-> ac, uc |-> uc, log |-> log]

\* Python's truth value of a returned value.
truthy(v) == v \notin {"None", "False", ""}

\* ------------------------------------------------------------ the store
\* Ticks a token and a session live; stands for JWT_EXPIRATION_HOURS.
TokenLifetime == 1
\* The clock stops here.
MaxTime == 2
\* HTTP requests over a run.
MaxReqs == 3
\* HTTP requests served at the same time.
MaxInFlight == 2

Reqs == 1..MaxInFlight
\* The ids User.id takes, in the order they are handed out; the first
\* belongs to a user registered before the server started.
UserIds == <<"A", "B", "C">>
Emails == {"e1", "e2"}
Names == {"n1", "n2"}
Passwords == {"pw", "wrong"}

\* hashlib.sha256(password.encode()).hexdigest()
hash_password(password) == <<"sha256", password>>

verify_password(password, hashed_password) == hash_password(password) = hashed_password

\* db.users.update_one({"id": user_id}, {"$set": {"is_online": v}}): the
\* user with that id, if there is one, gets the flag.
update_is_online(users, user_id, v) ==
    [i \in 1..Len(users) |->
        IF users[i].id = user_id THEN [users[i] EXCEPT !.is_online = v] ELSE users[i]]

\* find_one: of the indexes of the matching documents, the first (0: None).
find_one(matching) ==
    IF matching = {} THEN 0
    ELSE CHOOSE i \in matching : \A j \in matching : i <= j

\* db.sessions.find_one({"session_token": token})
find_session(sessions, token) ==
    find_one({i \in 1..Len(sessions) : sessions[i].session_token = token})

\* db.users.find_one({"id": user_id})
find_user(users, user_id) ==
    find_one({i \in 1..Len(users) : users[i].id = user_id})

\* db.users.find_one({"email": email})
find_user_by_email(users, email) ==
    find_one({i \in 1..Len(users) : users[i].email = email})

\* db.users.find_one({"$or": [{"email": email}, {"username": username}]})
find_existing_user(users, email, username) ==
    find_one({i \in 1..Len(users) :
                 users[i].email = email \/ users[i].username = username})

\* db.sessions.delete_one({"session_token": token}): the first session of
\* that token is removed, no other.
delete_session(sessions, token) ==
    LET i == find_session(sessions, token)
    IN  IF i = 0 THEN sessions
        ELSE [j \in 1..(Len(sessions) - 1) |->
                 IF j < i THEN sessions[j] ELSE sessions[j + 1]]

\* ------------------------------------------------------------- tokens
\* A bearer string: a token signed with JWT_SECRET (its payload names the
\* user and the expiry), a string that does not verify, or none.
NoToken == [kind |-> "none", uid |-> NoUser, exp |-> 0]
Garbage == [kind |-> "garbage", uid |-> NoUser, exp |-> 0]
\* An Authorization header that does not start with "Bearer ".
BasicAuth == [kind |-> "basic", uid |-> NoUser, exp |-> 0]

\* create_jwt_token: the payload is the user and exp = now + the lifetime;
\* the same user and the same instant give the same string.
create_jwt_token(user_id, t) == [kind |-> "jwt", uid |-> user_id, exp |-> t + TokenLifetime]

None == [ok |-> FALSE, user_id |-> NoUser]

\* verify_jwt_token: the payload, or None for a token that does not decode
\* or whose exp has passed.
verify_jwt_token(token, t) ==
    IF token.kind = "jwt" /\ token.exp > t
    THEN [ok |-> TRUE, user_id |-> token.uid]
    ELSE None

\* A request_token that looks at the Authorization header first.
request_token_header_first(cookie, header) ==
    IF header.kind \notin {"none", "basic"} THEN header
    ELSE IF cookie.kind # "none" THEN cookie
    ELSE NoToken

\* The token of a request: the session_token cookie, else the Authorization
\* header when it starts with "Bearer ".
request_token(cookie, header) ==
    IF cookie.kind # "none" THEN cookie
    ELSE IF header.kind \notin {"none", "basic"} THEN header
    ELSE NoToken

\* A session check that does not look at the record's expires_at.
session_check_ignores_expiry(sessions, token, payload, t) ==
    IF find_session(sessions, token) = 0 THEN None ELSE payload

\* get_current_user after its await of db.sessions.find_one: None without a
\* session record of that token or with one whose expires_at has passed,
\* else the payload.
session_check(sessions, token, payload, t) ==
    LET i == find_session(sessions, token)
    IN  IF i = 0 THEN None
        ELSE IF sessions[i].expires_at < t THEN None
        ELSE payload

\* ------------------------------------------------------------- Init
Init ==
    /\ active_connections = <<>>
    /\ user_connections = [u \in Users |-> NoConn]
    /\ pc = [h \in Handlers |-> "start"]
    /\ h_user = [h \in Handlers |-> NoUser]
    /\ h_cid = [h \in Handlers |-> NoConn]
    /\ bc = [h \in Handlers |-> NoIter]
    /\ client_open = [h \in Handlers |-> FALSE]
    /\ sent = [h \in Handlers |-> <<>>]
    /\ nextId = 1
    /\ nFrames = 0
    /\ h_data = [h \in Handlers |-> ""]
    /\ bhist = <<>>
    /\ api = NoCall
    /\ db_users = <<[id |-> "A", email |-> "e1", username |-> "n1",
                     password |-> hash_password("pw"), is_online |-> FALSE]>>
    /\ db_sessions = <<>>
    /\ db_messages = <<>>
    /\ db_channels = <<"general">>
    /\ now = 0
    /\ req = [r \in Reqs |-> NoReq]
    /\ nReqs = 0
    /\ nextUser = 2
    /\ issued = {}
    /\ revoked = {}
    /\ last = NoResponse

\* --------------------------------------------------- websocket_endpoint
\* An exception exc leaves the handler's try block.  WebSocketDisconnect is
\* the only one caught: the handler calls manager.disconnect with its own
\* connection_id and user_id.  Any other exception leaves the handler, the
\* registry keeps the connection, and the server closes the transport.
Raised(h, exc) ==
    IF exc = "WebSocketDisconnect"
    THEN LET r == disconnect(active_connections, user_connections, h_cid[h], h_user[h])
         IN  /\ active_connections' = r.ac
             /\ user_connections' = r.uc
             /\ pc' = [pc EXCEPT ![h] = "set_offline"]
             /\ client_open' = client_open
    ELSE /\ active_connections' = active_connections
         /\ user_connections' = user_connections
         /\ pc' = [pc EXCEPT ![h] = "crashed"]
         /\ client_open' = [client_open EXCEPT ![h] = FALSE]

\* A client opens /ws/{user_id}; the handler awaits websocket.accept().
WsOpen(h, u) ==
    /\ UNCHANGED <<db_users, httpvars>>
    /\ pc[h] = "start"
    /\ \A g \in Handlers : g < h => pc[g] # "start"
    /\ pc' = [pc EXCEPT ![h] = "accept"]
    /\ h_user' = [h_user EXCEPT ![h] = u]
    /\ client_open' = [client_open EXCEPT ![h] = TRUE]
    /\ UNCHANGED <<active_connections, user_connections, h_cid, bc, sent,
                   nextId, nFrames, h_data, bhist, api>>

\* manager.connect returns: the rest of connect after the handshake.
WsConnect(h) ==
    /\ UNCHANGED <<db_users, httpvars>>
    /\ pc[h] = "accept"
    /\ LET r == connect(active_connections, user_connections, nextId, h, h_user[h])
       IN  /\ active_connections' = r.ac
           /\ user_connections' = r.uc
    /\ h_cid' = [h_cid EXCEPT ![h] = nextId]
    /\ nextId' = nextId + 1
    /\ pc' = [pc EXCEPT ![h] = "set_online"]
    /\ UNCHANGED <<h_user, bc, client_open, sent, nFrames, h_data, bhist, api>>

\* The websockets held by the dict.
Values(ac) == {ac[i].value : i \in {j \in 1..Len(ac) : ac[j].key # NoConn}}

\* The history entry of a broadcast that starts now: the websockets
\* registered and the length of the dict's entry array, the payload, how it
\* ended, and the number of the stored message it carries (0: a frame
\* relayed by a receive loop, stored nowhere).
Started(ac, payload, message) ==
    [snap |-> Values(ac), len |-> Len(ac), payload |-> payload,
     status |-> "running", message |-> message]

\* History: broadcast bid ended with `status`.
Ended(hist, bid, status) == [hist EXCEPT ![bid].status = status]

\* The presence write "is_online: True" returns; the loop awaits a frame.
WsSetOnline(h) ==
    /\ pc[h] = "set_online"
    /\ db_users' = update_is_online(db_users, h_user[h], TRUE)
    /\ UNCHANGED httpvars
    /\ pc' = [pc EXCEPT ![h] = "receive"]
    /\ UNCHANGED <<active_connections, user_connections, h_user, h_cid, bc,
                   client_open, sent, nextId, nFrames, h_data, bhist, api>>

\* The client closes its transport.
WsClientClose(h) ==
    /\ UNCHANGED <<db_users, httpvars>>
    /\ pc[h] \in {"set_online", "receive", "broadcast"}
    /\ client_open[h]
    /\ client_open' = [client_open EXCEPT ![h] = FALSE]
    /\ UNCHANGED <<active_connections, user_connections, pc, h_user, h_cid, bc,
                   sent, nextId, nFrames, h_data, bhist, api>>

\* One step of manager.broadcast in handler h, from the iterator `it`: the
\* next value of the live dict is fetched and the text written to it.
WsBroadcastRun(h, it, hist) ==
    LET r == dict_next(it, active_connections)
    IN  \/ /\ r.kind = "value"
           /\ client_open[r.value]
           /\ sent' = send_text(sent, r.value, it.msg, it.bid)
           /\ bc' = [bc EXCEPT ![h] = r.it]
           /\ pc' = [pc EXCEPT ![h] = "broadcast"]
           /\ bhist' = hist
           /\ UNCHANGED <<active_connections, user_connections, client_open>>
        \/ /\ r.kind = "value"
           /\ ~client_open[r.value]
           /\ \E e \in WriteErrors : Raised(h, e)
           /\ bc' = [bc EXCEPT ![h] = NoIter]
           /\ bhist' = Ended(hist, it.bid, "write_failed")
           /\ sent' = sent
        \/ /\ r.kind = "StopIteration"
           /\ bc' = [bc EXCEPT ![h] = NoIter]
           /\ pc' = [pc EXCEPT ![h] = "receive"]
           /\ bhist' = Ended(hist, it.bid, "completed")
           /\ UNCHANGED <<active_connections, user_connections, client_open, sent>>
        \/ /\ r.kind = "RuntimeError"
           /\ Raised(h, "RuntimeError")
           /\ bc' = [bc EXCEPT ![h] = NoIter]
           /\ bhist' = Ended(hist, it.bid, "RuntimeError")
           /\ sent' = sent

\* receive_text returns a frame: it is parsed and dispatched up to the
\* next await.
WsReceive(h, data) ==
    /\ UNCHANGED <<db_users, httpvars>>
    /\ pc[h] = "receive"
    /\ client_open[h]
    /\ nFrames < MaxFrames
    /\ nFrames' = nFrames + 1
    /\ h_data' = [h_data EXCEPT ![h] = data]
    /\ LET message_data == json_loads(data)
           tag == type_of(message_data)
       IN  \/ /\ message_data.exc # ""
              /\ Raised(h, message_data.exc)
              /\ UNCHANGED <<bc, sent, bhist>>
           \/ /\ message_data.exc = ""
              /\ tag.exc # ""
              /\ Raised(h, tag.exc)
              /\ UNCHANGED <<bc, sent, bhist>>
           \/ /\ message_data.exc = ""
              /\ tag.exc = ""
              /\ tag.type = "ping"
              /\ sent' = send_text(sent, h, FramePong, 0)
              /\ UNCHANGED <<active_connections, user_connections, pc, bc,
                             client_open, bhist>>
           \/ /\ message_data.exc = ""
              /\ tag.exc = ""
              /\ tag.type = "message"
              /\ WsBroadcastRun(h, dict_iter(active_connections, data, Len(bhist) + 1),
                                Append(bhist, Started(active_connections, data, 0)))
           \/ /\ message_data.exc = ""
              /\ tag.exc = ""
              /\ tag.type \notin {"ping", "message"}
              /\ UNCHANGED <<active_connections, user_connections, pc, bc,
                             client_open, sent, bhist>>
    /\ UNCHANGED <<h_user, h_cid, nextId, api>>

\* The await of send_text inside broadcast returns: the loop goes on.
WsBroadcastStep(h) ==
    /\ UNCHANGED <<db_users, httpvars>>
    /\ pc[h] = "broadcast"
    /\ WsBroadcastRun(h, bc[h], bhist)
    /\ UNCHANGED <<h_user, h_cid, nextId, nFrames, h_data, api>>

\* receive_text on a closed transport raises WebSocketDisconnect.
WsReceiveDisconnect(h) ==
    /\ UNCHANGED <<db_users, httpvars>>
    /\ pc[h] = "receive"
    /\ ~client_open[h]
    /\ Raised(h, "WebSocketDisconnect")
    /\ UNCHANGED <<h_user, h_cid, bc, sent, nextId, nFrames, h_data, bhist, api>>

\* The presence write "is_online: False" returns and the handler ends.
WsSetOffline(h) ==
    /\ pc[h] = "set_offline"
    /\ db_users' = update_is_online(db_users, h_user[h], FALSE)
    /\ UNCHANGED httpvars
    /\ pc' = [pc EXCEPT ![h] = "done"]
    /\ client_open' = [client_open EXCEPT ![h] = FALSE]
    /\ UNCHANGED <<active_connections, user_connections, h_user, h_cid, bc,
                   sent, nextId, nFrames, h_data, bhist, api>>

Next ==
    \/ \E h \in Handlers, u \in Users : WsOpen(h, u)
    \/ \E h \in Handlers : WsConnect(h)
    \/ \E h \in Handlers : WsSetOnline(h)
    \/ \E h \in Handlers : WsClientClose(h)
    \/ \E h \in Handlers, data \in Frames : WsReceive(h, data)
    \/ \E h \in Handlers : WsBroadcastStep(h)
    \/ \E h \in Handlers : WsReceiveDisconnect(h)
    \/ \E h \in Handlers : WsSetOffline(h)

Spec == Init /\ [][Next]_vars

\* ------------------------------------------- the manager called directly
\* The manager's methods take any arguments: here they are called one at a
\* time, each call running to its end, with arguments of the caller's choice.
PersonalText == "{\"type\":\"dm\"}"

\* connect(websocket, user_id) on a websocket not used before.
ApiConnect(ws, u) ==
    /\ UNCHANGED <<db_users, httpvars>>
    /\ api.n < MaxCalls
    /\ h_cid[ws] = NoConn
    /\ \A g \in Handlers : g < ws => h_cid[g] # NoConn
    /\ LET r == connect(active_connections, user_connections, nextId, ws, u)
       IN  /\ active_connections' = r.ac
           /\ user_connections' = r.uc
    /\ h_cid' = [h_cid EXCEPT ![ws] = nextId]
    /\ h_user' = [h_user EXCEPT ![ws] = u]
    /\ client_open' = [client_open EXCEPT ![ws] = TRUE]
    /\ nextId' = nextId + 1
    /\ api' = [n |-> api.n + 1, op |-> "connect", user |-> u, cid |-> nextId,
               ret |-> "id", exc |-> "", again |-> FALSE]
    /\ UNCHANGED <<pc, bc, sent, nFrames, h_data, bhist>>

\* disconnect(connection_id, user_id) with any id handed out and any user.
ApiDisconnect(c, u) ==
    /\ UNCHANGED <<db_users, httpvars>>
    /\ api.n < MaxCalls
    /\ c < nextId
    /\ LET r == disconnect(active_connections, user_connections, c, u)
       IN  /\ active_connections' = r.ac
           /\ user_connections' = r.uc
    /\ api' = [n |-> api.n + 1, op |-> "disconnect", user |-> u, cid |-> c,
               ret |-> "None", exc |-> "",
               again |-> (api.op = "disconnect" /\ api.cid = c /\ api.user = u)]
    /\ UNCHANGED <<pc, h_user, h_cid, bc, client_open, sent, nextId, nFrames,
                   h_data, bhist>>

\* send_personal_message(message, user_id) for any user.
ApiSendPersonal(u) ==
    /\ UNCHANGED <<db_users, httpvars>>
    /\ api.n < MaxCalls
    /\ LET r == send_personal_message(active_connections, user_connections,
                                      client_open, sent, PersonalText, u)
       IN  /\ active_connections' = r.ac
           /\ user_connections' = r.uc
           /\ sent' = r.log
           /\ api' = [n |-> api.n + 1, op |-> "send_personal_message", user |-> u,
                      cid |-> NoConn, ret |-> r.ret, exc |-> r.exc, again |-> FALSE]
    /\ UNCHANGED <<pc, h_user, h_cid, bc, client_open, nextId, nFrames,
                   h_data, bhist>>

\* The peer of a websocket closes its transport.
ApiClose(ws) ==
    /\ UNCHANGED <<db_users, httpvars>>
    /\ h_cid[ws] # NoConn
    /\ client_open[ws]
    /\ client_open' = [client_open EXCEPT ![ws] = FALSE]
    /\ UNCHANGED <<active_connections, user_connections, pc, h_user, h_cid, bc,
                   sent, nextId, nFrames, h_data, bhist, api>>

NextApi ==
    \/ \E ws \in Handlers, u \in Users : ApiConnect(ws, u)
    \/ \E c \in ConnIds, u \in Users : ApiDisconnect(c, u)
    \/ \E u \in Users : ApiSendPersonal(u)
    \/ \E ws \in Handlers : ApiClose(ws)

SpecApi == Init /\ [][NextApi]_vars

\* ------------------------------------------------------- HTTP routes
\* What the HTTP handlers leave alone in the websocket side.
wsvars == <<active_connections, user_connections, pc, h_user, h_cid, bc,
            client_open, nextId, nFrames, h_data, api>>

GatedOps == {"logout", "me", "channels", "create_channel", "messages", "send", "online"}

\* json.dumps({"type": "new_message", "data": message.model_dump(mode="json")})
NewMessageText(message) == <<"new_message", message>>

\* Message(content=..., sender_id=current_user["user_id"], ...): its id is
\* a fresh uuid, here the number of the message.
Message(sender_id, n) == [id |-> n, content |-> "hi", sender_id |-> sender_id]

\* The response is sent and the request is over.
Respond(r, status, current_user, wrote) ==
    /\ last' = [n |-> last.n + 1, op |-> req[r].op, status |-> status,
                current_user |-> current_user, wrote |-> wrote]
    /\ req' = [req EXCEPT ![r] = NoReq]

\* What each route answers when get_current_user returned None: logout
\* skips its writes and answers success; get_channels raises the 401 inside
\* its try block, whose "except Exception" turns it into a 500; the other
\* routes raise the 401.
unauthenticated_status(op) ==
    CASE op = "logout" -> 200
      [] op = "channels" -> 500
      [] OTHER -> 401

\* A gated route is called: get_current_user runs up to its await.  Without a
\* token, or with one that does not verify, it has returned None already.
HttpGated(r, op, cookie, header) ==
    /\ req[r].pc = "idle"
    /\ nReqs < MaxReqs
    /\ nReqs' = nReqs + 1
    /\ LET token == request_token(cookie, header)
           payload == verify_jwt_token(token, now)
       IN  IF token.kind = "none" \/ ~payload.ok
           THEN /\ last' = [n |-> last.n + 1, op |-> op,
                            status |-> unauthenticated_status(op),
                            current_user |-> NoUser, wrote |-> FALSE]
                /\ req' = req
           ELSE /\ req' = [req EXCEPT ![r] = [NoReq EXCEPT !.pc = "session", !.op = op,
                                                !.cookie = cookie, !.header = header,
                                                !.token = token]]
                /\ last' = last
    /\ UNCHANGED <<wsvars, sent, bhist, db_users, db_sessions, db_messages,
                   db_channels, now, nextUser, issued, revoked>>

\* db.sessions.find_one returns: get_current_user ends (its payload is the
\* one decoded before the await), and the route goes on to its first store
\* call or answers.
HttpSession(r) ==
    /\ req[r].pc = "session"
    /\ LET payload == [ok |-> TRUE, user_id |-> req[r].token.uid]
           current_user == session_check(db_sessions, req[r].token, payload, now)
       IN  IF ~current_user.ok
           THEN Respond(r, unauthenticated_status(req[r].op), NoUser, FALSE)
           ELSE /\ req' = [req EXCEPT ![r].pc = "op",
                                      ![r].current_user = current_user.user_id]
                /\ last' = last
    /\ UNCHANGED <<wsvars, sent, bhist, db_users, db_sessions, db_messages,
                   db_channels, now, nReqs, nextUser, issued, revoked>>

\* The first store call of an authenticated route returns.
HttpOp(r) ==
    /\ req[r].pc = "op"
    /\ LET op == req[r].op
           cu == req[r].current_user
       IN  \/ /\ op = "logout"
              /\ LET token == request_token(req[r].cookie, req[r].header)
                 IN  /\ db_sessions' =
                            IF token.kind # "none"
                            THEN delete_session(db_sessions, token)
                            ELSE db_sessions
                     /\ revoked' = revoked \cup {token}
              /\ req' = [req EXCEPT ![r].pc = "op2", ![r].wrote = TRUE]
              /\ UNCHANGED <<last, db_channels>>
           \/ /\ op = "me"
              /\ Respond(r, IF find_user(db_users, cu) = 0 THEN 404 ELSE 200, cu, FALSE)
              /\ UNCHANGED <<db_sessions, db_channels, revoked>>
           \/ /\ op \in {"channels", "messages", "online"}
              /\ Respond(r, 200, cu, FALSE)
              /\ UNCHANGED <<db_sessions, db_channels, revoked>>
           \/ /\ op = "create_channel"
              /\ db_channels' = Append(db_channels, "new")
              /\ Respond(r, 200, cu, TRUE)
              /\ UNCHANGED <<db_sessions, revoked>>
           \/ /\ op = "send"
              /\ IF find_user(db_users, cu) = 0
                 THEN Respond(r, 500, cu, FALSE)
                 ELSE /\ req' = [req EXCEPT ![r].pc = "op2"]
                      /\ last' = last
              /\ UNCHANGED <<db_sessions, db_channels, revoked>>
    /\ UNCHANGED <<wsvars, sent, bhist, db_users, db_messages, now, nReqs,
                   nextUser, issued>>

\* One step of manager.broadcast in send_message, from the iterator `it`.
\* An exception of the broadcast leaves the route: the answer is a 500.
HttpBroadcastRun(r, it, hist) ==
    LET d == dict_next(it, active_connections)
        cu == req[r].current_user
    IN  \/ /\ d.kind = "value"
           /\ client_open[d.value]
           /\ sent' = send_text(sent, d.value, it.msg, it.bid)
           /\ req' = [req EXCEPT ![r].it = d.it, ![r].pc = "broadcast", ![r].wrote = TRUE]
           /\ bhist' = hist
           /\ last' = last
        \/ /\ d.kind = "value"
           /\ ~client_open[d.value]
           /\ Respond(r, 500, cu, TRUE)
           /\ bhist' = Ended(hist, it.bid, "write_failed")
           /\ sent' = sent
        \/ /\ d.kind = "StopIteration"
           /\ Respond(r, 200, cu, TRUE)
           /\ bhist' = Ended(hist, it.bid, "completed")
           /\ sent' = sent
        \/ /\ d.kind = "RuntimeError"
           /\ Respond(r, 500, cu, TRUE)
           /\ bhist' = Ended(hist, it.bid, "RuntimeError")
           /\ sent' = sent

\* A send_message that starts its broadcast without having stored the message.
HttpOp2_broadcasts_unstored(r) ==
    /\ req[r].pc = "op2"
    /\ \/ /\ req[r].op = "logout"
          /\ db_users' = update_is_online(db_users, req[r].current_user, FALSE)
          /\ Respond(r, 200, req[r].current_user, TRUE)
          /\ UNCHANGED <<db_messages, sent, bhist>>
       \/ /\ req[r].op = "send"
          /\ db_messages' = db_messages
          /\ HttpBroadcastRun(r, dict_iter(active_connections,
                                           NewMessageText(Message(req[r].current_user,
                                                                  Len(db_messages) + 1)),
                                           Len(bhist) + 1),
                              Append(bhist, Started(active_connections,
                                                    NewMessageText(Message(req[r].current_user,
                                                                           Len(db_messages) + 1)),
                                                    Len(db_messages) + 1)))
          /\ UNCHANGED db_users
    /\ UNCHANGED <<wsvars, db_sessions, db_channels, now, nReqs, nextUser, issued, revoked>>

\* The second store call returns: logout marks the user offline and
\* answers; send_message has inserted the message and starts the broadcast.
HttpOp2(r) ==
    /\ req[r].pc = "op2"
    /\ \/ /\ req[r].op = "logout"
          /\ db_users' = update_is_online(db_users, req[r].current_user, FALSE)
          /\ Respond(r, 200, req[r].current_user, TRUE)
          /\ UNCHANGED <<db_messages, sent, bhist>>
       \/ /\ req[r].op = "send"
          /\ db_messages' = Append(db_messages, Message(req[r].current_user,
                                                        Len(db_messages) + 1))
          /\ HttpBroadcastRun(r, dict_iter(active_connections,
                                           NewMessageText(Message(req[r].current_user,
                                                                  Len(db_messages) + 1)),
                                           Len(bhist) + 1),
                              Append(bhist, Started(active_connections,
                                                    NewMessageText(Message(req[r].current_user,
                                                                           Len(db_messages) + 1)),
                                                    Len(db_messages) + 1)))
          /\ UNCHANGED db_users
    /\ UNCHANGED <<wsvars, db_sessions, db_channels, now, nReqs, nextUser, issued, revoked>>

\* The await of send_text inside send_message's broadcast returns.
HttpBroadcastStep(r) ==
    /\ req[r].pc = "broadcast"
    /\ HttpBroadcastRun(r, req[r].it, bhist)
    /\ UNCHANGED <<wsvars, db_users, db_sessions, db_messages, db_channels, now,
                   nReqs, nextUser, issued, revoked>>

\* register is called; it awaits the lookup of the email and the username.
HttpRegister(r, email, username) ==
    /\ req[r].pc = "idle"
    /\ nReqs < MaxReqs
    /\ nReqs' = nReqs + 1
    /\ req' = [req EXCEPT ![r] = [NoReq EXCEPT !.pc = "reg_find", !.op = "register",
                                         !.email = email, !.username = username,
                                         !.password = "pw"]]
    /\ UNCHANGED <<wsvars, sent, bhist, db_users, db_sessions, db_messages,
                   db_channels, now, nextUser, issued, revoked, last>>

\* The lookup returns: a taken email or username is refused, else the User
\* is built with a fresh id and its insert awaited.
HttpRegFind(r) ==
    /\ req[r].pc = "reg_find"
    /\ LET existing_user == find_existing_user(db_users, req[r].email, req[r].username)
       IN  IF existing_user # 0
           THEN /\ Respond(r, 400, NoUser, FALSE)
                /\ nextUser' = nextUser
           ELSE /\ nextUser <= Len(UserIds)
                /\ req' = [req EXCEPT ![r].pc = "reg_insert", ![r].uid = UserIds[nextUser]]
                /\ nextUser' = nextUser + 1
                /\ last' = last
    /\ UNCHANGED <<wsvars, sent, bhist, db_users, db_sessions, db_messages,
                   db_channels, now, nReqs, issued, revoked>>

\* The user is inserted; the token is made and its session insert awaited.
HttpRegInsert(r) ==
    /\ req[r].pc = "reg_insert"
    /\ db_users' = Append(db_users, [id |-> req[r].uid, email |-> req[r].email,
                                     username |-> req[r].username,
                                     password |-> hash_password(req[r].password),
                                     is_online |-> FALSE])
    /\ req' = [req EXCEPT ![r].pc = "reg_session", ![r].wrote = TRUE,
                          ![r].token = create_jwt_token(req[r].uid, now)]
    /\ UNCHANGED <<wsvars, sent, bhist, db_sessions, db_messages, db_channels, now,
                   nReqs, nextUser, issued, revoked, last>>

\* A session record that is stored under another string than the token.
session_of_other_string(token, user_id) ==
    [session_token |-> Garbage, user_id |-> user_id, expires_at |-> token.exp]

\* The session made with a token: expires_at is taken from the clock just
\* after the token's exp was.
session_of(token, user_id) ==
    [session_token |-> token, user_id |-> user_id, expires_at |-> token.exp]

\* The session is inserted and the token returned to the client.
HttpRegSession(r) ==
    /\ req[r].pc = "reg_session"
    /\ db_sessions' = Append(db_sessions, session_of(req[r].token, req[r].uid))
    /\ issued' = issued \cup {req[r].token}
    /\ Respond(r, 200, NoUser, TRUE)
    /\ UNCHANGED <<wsvars, sent, bhist, db_users, db_messages, db_channels, now,
                   nReqs, nextUser, revoked>>

\* login is called; it awaits the lookup of the email.
HttpLogin(r, email, password) ==
    /\ req[r].pc = "idle"
    /\ nReqs < MaxReqs
    /\ nReqs' = nReqs + 1
    /\ req' = [req EXCEPT ![r] = [NoReq EXCEPT !.pc = "login_find", !.op = "login",
                                         !.email = email, !.password = password]]
    /\ UNCHANGED <<wsvars, sent, bhist, db_users, db_sessions, db_messages,
                   db_channels, now, nextUser, issued, revoked, last>>

\* The lookup returns: an unknown email or a wrong password is refused, else
\* the token is made and its session insert awaited.
HttpLoginFind(r) ==
    /\ req[r].pc = "login_find"
    /\ LET user == find_user_by_email(db_users, req[r].email)
       IN  IF user = 0 \/ ~verify_password(req[r].password, db_users[user].password)
           THEN Respond(r, 401, NoUser, FALSE)
           ELSE /\ req' = [req EXCEPT ![r].pc = "login_session",
                                      ![r].uid = db_users[user].id,
                                      ![r].token = create_jwt_token(db_users[user].id, now)]
                /\ last' = last
    /\ UNCHANGED <<wsvars, sent, bhist, db_users, db_sessions, db_messages,
                   db_channels, now, nReqs, nextUser, issued, revoked>>

\* The session is inserted; the presence write is awaited.
HttpLoginSession(r) ==
    /\ req[r].pc = "login_session"
    /\ db_sessions' = Append(db_sessions, session_of(req[r].token, req[r].uid))
    /\ req' = [req EXCEPT ![r].pc = "login_online", ![r].wrote = TRUE]
    /\ UNCHANGED <<wsvars, sent, bhist, db_users, db_messages, db_channels, now,
                   nReqs, nextUser, issued, revoked, last>>

\* The user is marked online and the token returned to the client.
HttpLoginOnline(r) ==
    /\ req[r].pc = "login_online"
    /\ db_users' = update_is_online(db_users, req[r].uid, TRUE)
    /\ issued' = issued \cup {req[r].token}
    /\ Respond(r, 200, NoUser, TRUE)
    /\ UNCHANGED <<wsvars, sent, bhist, db_sessions, db_messages, db_channels, now,
                   nReqs, nextUser, revoked>>

\* Time passes.
Tick ==
    /\ now < MaxTime
    /\ now' = now + 1
    /\ UNCHANGED <<wsvars, sent, bhist, db_users, db_sessions, db_messages,
                   db_channels, req, nReqs, nextUser, issued, revoked, last>>

\* The bearer strings a client can present.
Creds == {NoToken, Garbage} \cup issued

\* In SpecHttp the HTTP requests are served one after the other, beside the
\* websocket handler of one connection that reads no frame.
HttpReqs == {1}
HttpHandlers == {1}

NextHttp ==
    \/ \E h \in HttpHandlers, u \in Users : WsOpen(h, u)
    \/ \E h \in HttpHandlers : WsConnect(h)
    \/ \E h \in HttpHandlers : WsSetOnline(h)
    \/ \E h \in HttpHandlers : WsClientClose(h)
    \/ \E h \in HttpHandlers : WsReceiveDisconnect(h)
    \/ \E h \in HttpHandlers : WsSetOffline(h)
    \/ \E r \in HttpReqs, op \in GatedOps, cookie \in Creds,
          header \in Creds \cup {BasicAuth} : HttpGated(r, op, cookie, header)
    \/ \E r \in HttpReqs : HttpSession(r)
    \/ \E r \in HttpReqs : HttpOp(r)
    \/ \E r \in HttpReqs : HttpOp2(r)
    \/ \E r \in HttpReqs : HttpBroadcastStep(r)
    \/ \E r \in HttpReqs, email \in Emails, username \in Names :
          HttpRegister(r, email, username)
    \/ \E r \in HttpReqs : HttpRegFind(r)
    \/ \E r \in HttpReqs : HttpRegInsert(r)
    \/ \E r \in HttpReqs : HttpRegSession(r)
    \/ \E r \in HttpReqs, email \in Emails, password \in Passwords :
          HttpLogin(r, email, password)
    \/ \E r \in HttpReqs : HttpLoginFind(r)
    \/ \E r \in HttpReqs : HttpLoginSession(r)
    \/ \E r \in HttpReqs : HttpLoginOnline(r)
    \/ Tick

SpecHttp == Init /\ [][NextHttp]_vars

\* In SpecRegister the register and login routes are served for several
\* requests at the same time: each await of a store call lets the event loop
\* run another request's handler.
NextRegister ==
    \/ \E r \in Reqs, email \in Emails, username \in Names :
          HttpRegister(r, email, username)
    \/ \E r \in Reqs : HttpRegFind(r)
    \/ \E r \in Reqs : HttpRegInsert(r)
    \/ \E r \in Reqs : HttpRegSession(r)
    \/ \E r \in Reqs, email \in Emails, password \in Passwords :
          HttpLogin(r, email, password)
    \/ \E r \in Reqs : HttpLoginFind(r)
    \/ \E r \in Reqs : HttpLoginSession(r)
    \/ \E r \in Reqs : HttpLoginOnline(r)
    \/ Tick

SpecRegister == Init /\ [][NextRegister]_vars

\* ------------------------------------------- chat sends beside websockets
\* The server some time after user A logged in: A's session is stored, the
\* client holds its token, and A is marked online.
InitSend ==
    /\ active_connections = <<>>
    /\ user_connections = [u \in Users |-> NoConn]
    /\ pc = [h \in Handlers |-> "start"]
    /\ h_user = [h \in Handlers |-> NoUser]
    /\ h_cid = [h \in Handlers |-> NoConn]
    /\ bc = [h \in Handlers |-> NoIter]
    /\ client_open = [h \in Handlers |-> FALSE]
    /\ sent = [h \in Handlers |-> <<>>]
    /\ nextId = 1
    /\ nFrames = 0
    /\ h_data = [h \in Handlers |-> ""]
    /\ bhist = <<>>
    /\ api = NoCall
    /\ db_users = <<[id |-> "A", email |-> "e1", username |-> "n1",
                     password |-> hash_password("pw"), is_online |-> TRUE]>>
    /\ db_sessions = <<session_of(create_jwt_token("A", 0), "A")>>
    /\ db_messages = <<>>
    /\ db_channels = <<"general">>
    /\ now = 0
    /\ req = [r \in Reqs |-> NoReq]
    /\ nReqs = 0
    /\ nextUser = 2
    /\ issued = {create_jwt_token("A", 0)}
    /\ revoked = {}
    /\ last = NoResponse

\* The websocket handlers of SpecSend.
SendHandlers == {1, 2}
\* Chat-send requests over a run of SpecSend.
MaxSends == 2

\* Chat-send requests, one at a time, beside two websocket handlers that
\* connect, read frames, broadcast and leave.
NextSend ==
    \/ \E h \in SendHandlers, u \in Users : WsOpen(h, u)
    \/ \E h \in SendHandlers : WsConnect(h)
    \/ \E h \in SendHandlers : WsSetOnline(h)
    \/ \E h \in SendHandlers : WsClientClose(h)
    \/ \E h \in SendHandlers, data \in Frames : WsReceive(h, data)
    \/ \E h \in SendHandlers : WsBroadcastStep(h)
    \/ \E h \in SendHandlers : WsReceiveDisconnect(h)
    \/ \E h \in SendHandlers : WsSetOffline(h)
    \/ \E r \in HttpReqs, cookie \in Creds :
          nReqs < MaxSends /\ HttpGated(r, "send", cookie, NoToken)
    \/ \E r \in HttpReqs : HttpSession(r)
    \/ \E r \in HttpReqs : HttpOp(r)
    \/ \E r \in HttpReqs : HttpOp2(r)
    \/ \E r \in HttpReqs : HttpBroadcastStep(r)

SpecSend == InitSend /\ [][NextSend]_vars

\* The HTTP routes called on the server some time after user A logged in.
SpecRelogin == InitSend /\ [][NextHttp]_vars

\* ------------------------------------------------------------ claims
\* The handlers whose connection is still in the connection map.
OpenHandlers(u) ==
    {h \in Handlers : h_user[h] = u /\ h_cid[h] \in Keys(active_connections)}

\* Ids are handed out in admission order: the largest id is the latest.
Latest(S) == CHOOSE h \in S : \A g \in S : h_cid[g] <= h_cid[h]

\* The step in which handler h calls manager.disconnect.
DisconnectStep(h) == pc[h] # "set_offline" /\ pc'[h] = "set_offline"

\* The step in which manager.connect returns in handler h.
ConnectStep(h) == pc[h] = "accept" /\ pc'[h] = "set_online"

\* How often broadcast b was written to websocket h.
Copies(h, b) == Cardinality({i \in 1..Len(sent[h]) : sent[h][i].bid = b})

\* C1: disconnect(connection_id, user_id) removes the user's mapping entry
\* if and only if the entry still points at connection_id.
C1_DisconnectGuarded ==
    [][\A h \in Handlers :
          DisconnectStep(h) =>
              user_connections'[h_user[h]] =
                  IF user_connections[h_user[h]] = h_cid[h]
                  THEN NoConn
                  ELSE user_connections[h_user[h]]]_vars

\* C2: a broadcast that met a write failure has still delivered the payload
\* to every connection that was registered when it started, is still
\* registered and has a healthy transport.
C2_FailureDoesNotAbort ==
    \A b \in 1..Len(bhist) :
        bhist[b].status = "write_failed" =>
            \A g \in bhist[b].snap :
                (client_open[g] /\ h_cid[g] \in Keys(active_connections))
                    => Copies(g, b) >= 1

\* C3: while a user has an open connection, the user's mapping holds the id
\* of the most recently admitted of the user's open connections.
C3_MappingIsLatestOpen ==
    \A u \in Users :
        OpenHandlers(u) # {} =>
            user_connections[u] = h_cid[Latest(OpenHandlers(u))]

\* C4: connect never rejects and is last-writer-wins: when it returns id c,
\* the user's mapping is c, c is a key of the connection map bound to the
\* transport, and c was not in the connection map nor held by any handler.
C4_ConnectLastWriterWins ==
    /\ [](\A h \in Handlers : pc[h] = "accept" => ENABLED WsConnect(h))
    /\ [][\A h \in Handlers :
            ConnectStep(h) =>
                /\ h_cid'[h] # NoConn
                /\ user_connections'[h_user[h]] = h_cid'[h]
                /\ h_cid'[h] \in Keys(active_connections')
                /\ ValueOf(active_connections', h_cid'[h]) = h
                /\ h_cid'[h] \notin Keys(active_connections)
                /\ \A g \in Handlers : h_cid[g] # h_cid'[h]]_vars

\* C4's case: a connect returned for a user who was already mapped.
C4_Witness ==
    \E h, g \in Handlers :
        /\ h # g
        /\ h_user[h] = h_user[g]
        /\ pc[h] = "set_online"
        /\ h_cid[g] \in Keys(active_connections)
        /\ h_cid[g] < h_cid[h]
        /\ user_connections[h_user[h]] = h_cid[h]

\* A frame that json.loads rejects or that has no type tag.
Malformed(data) ==
    data # "" /\ (json_loads(data).exc # "" \/ type_of(json_loads(data)).exc # "")

\* C5: a handler that read a malformed frame has left its loop through
\* disconnect, and its id is no longer in the connection map.
C5_MalformedFrameDisconnects ==
    \A h \in Handlers :
        Malformed(h_data[h]) =>
            /\ pc[h] \in {"set_offline", "done"}
            /\ h_cid[h] \notin Keys(active_connections)

\* C6: a broadcast never ends in an error because the connection map changed
\* while it was suspended, and writes its payload at most once to each
\* connection.
C6_BroadcastOnSnapshot ==
    /\ \A b \in 1..Len(bhist) : bhist[b].status # "RuntimeError"
    /\ \A b \in 1..Len(bhist) : \A h \in Handlers : Copies(h, b) <= 1

\* Handlers h and g are the only ones admitted so far for their two users.
OnlyAdmitted(h, g) ==
    \A k \in Handlers \ {h, g} :
        h_user[k] \in {h_user[h], h_user[g]} => h_cid[k] = NoConn

\* C7: after two connects for two distinct users, however interleaved, each
\* user's mapping points at that user's own new id and both ids are in the
\* connection map bound to their own transports.
C7_ConcurrentConnects ==
    \A h, g \in Handlers :
        (/\ h_user[h] # h_user[g]
         /\ pc[h] \in {"set_online", "receive", "broadcast"}
         /\ pc[g] \in {"set_online", "receive", "broadcast"}
         /\ OnlyAdmitted(h, g))
        => /\ user_connections[h_user[h]] = h_cid[h]
           /\ user_connections[h_user[g]] = h_cid[g]
           /\ h_cid[h] \in Keys(active_connections)
           /\ h_cid[g] \in Keys(active_connections)
           /\ ValueOf(active_connections, h_cid[h]) = h
           /\ ValueOf(active_connections, h_cid[g]) = g

\* C7's case: the two handshakes overlapped (the handler that began its
\* handshake first was registered second) and both connects have returned.
C7_Witness ==
    /\ h_user[1] # h_user[2]
    /\ h_user[1] # NoUser
    /\ h_user[2] # NoUser
    /\ h_cid[2] = 1
    /\ h_cid[1] = 2
    /\ pc[1] = "set_online"
    /\ pc[2] \in {"set_online", "receive"}

\* The lookups of send_personal_message miss for user u.
LookupMiss(u) ==
    \/ user_connections[u] = NoConn
    \/ user_connections[u] \notin Keys(active_connections)

\* The step is a call send_personal_message(message, u).
SendPersonalStep(u) ==
    /\ api'.n = api.n + 1
    /\ api'.op = "send_personal_message"
    /\ api'.user = u

WsIdentity(h) == NoUser

\* C9: whoever mutated state had obtained an identity from the session
\* validator first: every connection admitted to the registry, every
\* websocket handler that started a broadcast, and every gated HTTP request
\* that wrote to the store or broadcast.
C9_MutationNeedsIdentity ==
    /\ \A h \in Handlers : h_cid[h] # NoConn => WsIdentity(h) # NoUser
    /\ \A h \in Handlers : bc[h] # NoIter => WsIdentity(h) # NoUser
    /\ \A r \in Reqs :
          (req[r].op \in GatedOps /\ req[r].wrote) => req[r].current_user # NoUser
    /\ (last.op \in GatedOps /\ last.wrote) => last.current_user # NoUser

\* C10: a gated HTTP operation called without a valid credential answers
\* 401, and has written nothing to the store and broadcast nothing.
C10_UnauthenticatedIsRejected ==
    (last.op \in GatedOps /\ last.current_user = NoUser) =>
        /\ last.status = 401
        /\ ~last.wrote

\* The step in which get_current_user returns to the route of request r
\* after its session lookup.
SessionStep(r) == req[r].pc = "session" /\ req'[r].pc # "session"

\* The store holds a session record of the token whose expiry has not passed.
LiveSession(token) ==
    \E i \in 1..Len(db_sessions) :
        /\ db_sessions[i].session_token = token
        /\ db_sessions[i].expires_at >= now

\* The request is answered in this step as unauthenticated.
Unauthenticated(r) ==
    /\ req'[r].pc = "idle"
    /\ last'.n = last.n + 1
    /\ last'.current_user = NoUser

\* C11: get_current_user returns an identity only for a token that verifies
\* and has not expired when it is decoded, and of which the store holds a
\* session record whose expiry has not passed when it is looked up; in
\* every other case the route gets no identity.
C11_ValidatorChecksAll ==
    /\ [](\A r \in HttpReqs :
            req[r].current_user # NoUser =>
                /\ req[r].token.kind = "jwt"
                /\ req[r].current_user = req[r].token.uid)
    /\ [][nReqs' # nReqs =>
            \A r \in HttpReqs, op \in GatedOps, cookie \in Creds,
               header \in Creds \cup {BasicAuth} :
                HttpGated(r, op, cookie, header) =>
                    LET token == request_token(cookie, header)
                    IN  IF token.kind = "jwt" /\ token.exp > now
                        THEN req'[r].pc = "session" /\ req'[r].token = token
                             /\ last' = last
                        ELSE req'[r].pc = "idle" /\ last'.n = last.n + 1
                             /\ last'.current_user = NoUser]_vars
    /\ [][\A r \in HttpReqs :
            SessionStep(r) =>
                IF LiveSession(req[r].token)
                THEN req'[r].pc = "op" /\ req'[r].current_user = req[r].token.uid
                ELSE Unauthenticated(r)]_vars

\* C11's cases: a request was refused, and a later one, whose session was
\* looked up after the clock moved, has got its identity.
C11_Witness ==
    /\ last.op \in GatedOps
    /\ last.current_user = NoUser
    /\ last.status = 401
    /\ req[1].pc = "op"
    /\ req[1].current_user # NoUser
    /\ now >= 1

\* How many session records of a token the collection holds.
SessionsOf(sessions, token) ==
    Cardinality({i \in 1..Len(sessions) : sessions[i].session_token = token})

\* The step in which logout's delete_one returns.
LogoutDeleteStep(r) ==
    req[r].pc = "op" /\ req[r].op = "logout" /\ req'[r].pc = "op2"

\* C12: for a request that carries a session cookie, validation looks at the
\* cookie's token alone, whatever the Authorization header holds: a cookie
\* that does not verify is refused, one that verifies is the token looked
\* up; and logout deletes one session record of the cookie's token and none
\* of any other token.
C12_CookieTakesPrecedence ==
    /\ [](\A r \in HttpReqs :
            req[r].cookie.kind # "none" => req[r].token = req[r].cookie)
    /\ [][nReqs' # nReqs =>
            \A r \in HttpReqs, op \in GatedOps, cookie \in Creds \ {NoToken},
               header \in Creds \cup {BasicAuth} :
                HttpGated(r, op, cookie, header) =>
                    IF cookie.kind = "jwt" /\ cookie.exp > now
                    THEN req'[r].pc = "session" /\ req'[r].token = cookie
                    ELSE Unauthenticated(r)]_vars
    /\ [][\A r \in HttpReqs :
            (LogoutDeleteStep(r) /\ req[r].cookie.kind # "none") =>
                \A t \in issued :
                    SessionsOf(db_sessions', t) =
                        IF t = req[r].cookie /\ SessionsOf(db_sessions, t) > 0
                        THEN SessionsOf(db_sessions, t) - 1
                        ELSE SessionsOf(db_sessions, t)]_vars

\* C12's case: a logout that carried one valid token in its cookie and
\* another in its header has deleted the session of the cookie's token and
\* kept that of the header's.
C12_Witness ==
    /\ req[1].op = "logout"
    /\ req[1].pc = "op2"
    /\ req[1].cookie.kind = "jwt"
    /\ req[1].header.kind = "jwt"
    /\ req[1].header # req[1].cookie
    /\ SessionsOf(db_sessions, req[1].cookie) = 0
    /\ SessionsOf(db_sessions, req[1].header) = 1

\* C13: disconnect is idempotent: in every registry state and for all
\* arguments, a second disconnect with the same arguments gives the maps
\* the first one gave; and a call that repeats the disconnect before it
\* changes neither map and raises nothing.
C13_DisconnectIdempotent ==
    /\ [](\A c \in ConnIds, u \in Users :
            LET first == disconnect(active_connections, user_connections, c, u)
            IN  disconnect(first.ac, first.uc, c, u) = first)
    /\ [][(api'.n = api.n + 1 /\ api'.op = "disconnect" /\ api'.again) =>
            /\ active_connections' = active_connections
            /\ user_connections' = user_connections
            /\ api'.exc = ""]_vars

\* C13's case: a disconnect was repeated while other connections were
\* registered and the other user was mapped.
C13_Witness ==
    /\ api.op = "disconnect"
    /\ api.again
    /\ Keys(active_connections) # {}
    /\ \E u \in Users : user_connections[u] # NoConn

\* The step in which handler h reads the frame `data` and handles it.
ReceiveStep(h, data) == nFrames' # nFrames /\ WsReceive(h, data)

\* C14: a ping frame read on a connection writes exactly one pong to that
\* connection and nothing to any other, starts no broadcast, leaves the
\* handler in its receive loop and leaves both registry maps unchanged.
C14_PingPong ==
    [][\A h \in Handlers :
          ReceiveStep(h, FramePing) =>
              /\ sent'[h] = Append(sent[h], [text |-> FramePong, bid |-> 0])
              /\ \A g \in Handlers \ {h} : sent'[g] = sent[g]
              /\ bhist' = bhist
              /\ bc' = bc
              /\ pc'[h] = "receive"
              /\ active_connections' = active_connections
              /\ user_connections' = user_connections]_vars

\* C14's case: a ping was answered while another connection was registered
\* with an open transport, which got nothing.
C14_Witness ==
    \E h, g \in Handlers :
        /\ h # g
        /\ h_data[h] = FramePing
        /\ sent[h] = <<[text |-> FramePong, bid |-> 0]>>
        /\ pc[h] = "receive"
        /\ h_cid[g] \in Keys(active_connections)
        /\ client_open[g]
        /\ sent[g] = <<>>

\* The broadcasts started by send_message.
SendBroadcasts == {b \in 1..Len(bhist) : bhist[b].message # 0}

\* The step in which request r's insert of its message returns.
StoreStep(r) == req[r].op = "send" /\ req[r].pc = "op2" /\ req'[r].pc # "op2"

\* C15: send_message stores its message exactly once and only then
\* broadcasts it, once: every stored message has exactly one broadcast,
\* started when its insert returned and never before; what a connection is
\* written in that broadcast is the new_message event of that stored
\* message, at most once; and the messages collection grows only by one
\* message of the request's user per request.
C15_StoredThenBroadcastOnce ==
    /\ [](\A n \in 1..Len(db_messages) :
            Cardinality({b \in SendBroadcasts : bhist[b].message = n}) = 1)
    /\ [](\A b \in SendBroadcasts : bhist[b].message <= Len(db_messages))
    /\ [](\A b \in SendBroadcasts : \A h \in Handlers :
            /\ Copies(h, b) <= 1
            /\ \A i \in 1..Len(sent[h]) :
                   sent[h][i].bid = b =>
                       sent[h][i].text = NewMessageText(db_messages[bhist[b].message]))
    /\ [][db_messages' # db_messages =>
            \E r \in HttpReqs :
                /\ StoreStep(r)
                /\ req[r].current_user # NoUser
                /\ db_messages' = Append(db_messages,
                                         Message(req[r].current_user, Len(db_messages) + 1))
                /\ Len(bhist') = Len(bhist) + 1]_vars
    /\ [][\A r \in HttpReqs :
            StoreStep(r) => Len(db_messages') = Len(db_messages) + 1]_vars

\* C15's case: a send request stored its message and the event reached two
\* live connections, and a second request has stored another message.
C15_Witness ==
    /\ Len(db_messages) = 2
    /\ \E b \in SendBroadcasts :
          /\ bhist[b].message = 1
          /\ bhist[b].status = "completed"
          /\ Copies(1, b) = 1
          /\ Copies(2, b) = 1

\* C16: whatever a broadcast wrote to a connection is the event of a stored
\* message: a chat-message frame read by a receive loop reaches no
\* connection without having been stored first.
C16_RelayedFrameIsStored ==
    \A h \in Handlers : \A i \in 1..Len(sent[h]) :
        sent[h][i].bid # 0 =>
            /\ bhist[sent[h][i].bid].message \in 1..Len(db_messages)
            /\ sent[h][i].text =
                   NewMessageText(db_messages[bhist[sent[h][i].bid].message])

\* The step in which a route that only reads answers request r.
ReadAnswerStep(r) ==
    /\ req[r].pc = "op"
    /\ req[r].op \in {"me", "channels", "messages", "online"}
    /\ req'[r].pc = "idle"

\* C17: a token that register or login returned, with which no logout has
\* deleted a session, is accepted by every gated operation while it has not
\* expired: presented as the cookie, or as the bearer header without a
\* cookie, it passes the decoding (its own expiry not reached) and then the
\* session lookup (the record's expiry not passed), the route gets the
\* token's user, and the routes that only read answer 200.
C17_IssuedTokenAccepted ==
    /\ [][nReqs' # nReqs =>
            \A r \in HttpReqs, op \in GatedOps, t \in issued \ revoked,
               other \in Creds \cup {BasicAuth} :
                (t.exp > now /\ (HttpGated(r, op, t, other)
                                 \/ HttpGated(r, op, NoToken, t))) =>
                    req'[r].pc = "session" /\ req'[r].token = t]_vars
    /\ [][\A r \in HttpReqs :
            (/\ SessionStep(r)
             /\ req[r].token \in issued \ revoked
             /\ req[r].token.exp >= now)
            => /\ req'[r].pc = "op"
               /\ req'[r].current_user = req[r].token.uid]_vars
    /\ [][\A r \in HttpReqs :
            ReadAnswerStep(r) =>
                /\ last'.status = 200
                /\ last'.current_user = req[r].current_user]_vars

\* C17's case: a token returned by login or register was accepted by one
\* gated operation, which answered 200, and then again by a chat send
\* after the clock moved.
C17_Witness ==
    /\ req[1].pc = "op"
    /\ req[1].op = "send"
    /\ req[1].token \in issued \ revoked
    /\ req[1].current_user = req[1].token.uid
    /\ last.op \in GatedOps
    /\ last.status = 200
    /\ last.current_user = req[1].current_user
    /\ now >= 1

\* C18 (its safety half): a write failure inside a broadcast is not raised
\* to the caller: no broadcast ends with the write error, so no receive
\* loop is left because of it and no chat-send request that stored its
\* message is answered with a 500.
C18_FailureNotRaisedToCaller ==
    /\ \A b \in 1..Len(bhist) : bhist[b].status # "write_failed"
    /\ (last.op = "send" /\ last.wrote /\ Len(bhist) > 0
        /\ bhist[Len(bhist)].status # "RuntimeError") => last.status = 200

\* The entries of a log of websocket h that broadcast b wrote.
WrittenBy(log, h, b) == {i \in 1..Len(log[h]) : log[h][i].bid = b}

\* Broadcast b ends in this step without an error.
CompletesStep(b) ==
    /\ bhist'[b].status = "completed"
    /\ (b > Len(bhist) \/ bhist[b].status = "running")

\* No connect and no disconnect has run since broadcast b started: connect
\* appends an entry to the dict and disconnect turns one into a deleted
\* entry, so the dict is as it was.
Undisturbed(b) ==
    /\ Len(active_connections) = bhist'[b].len
    /\ Values(active_connections) = bhist'[b].snap

\* C19: a broadcast that ends with no write failure and no connect or
\* disconnect interleaved has written its payload, unchanged, exactly once
\* to every connection that was in the connection map when it started,
\* superseded connections and the sender's included, and to no other.
C19_BroadcastReachesAll ==
    [][\A b \in 1..Len(bhist') :
          (CompletesStep(b) /\ Undisturbed(b)) =>
              \A h \in Handlers :
                  IF h \in bhist'[b].snap
                  THEN /\ Cardinality(WrittenBy(sent', h, b)) = 1
                       /\ \A i \in WrittenBy(sent', h, b) :
                              sent'[h][i].text = bhist'[b].payload
                  ELSE WrittenBy(sent', h, b) = {}]_vars

\* C19's case: a frame sent on the newer of a user's two connections was
\* broadcast, undisturbed, to both of them and to a third connection.
C19_Witness ==
    /\ Len(bhist) = 1
    /\ bhist[1].status = "completed"
    /\ bhist[1].snap = {1, 2, 3}
    /\ Len(active_connections) = bhist[1].len
    /\ Values(active_connections) = bhist[1].snap
    /\ h_user[1] = h_user[2]
    /\ h_data[2] = FrameMessage
    /\ \A h \in {1, 2, 3} : Copies(h, 1) = 1

\* The handlers whose receive loop has not ended.
InLoop == {g \in Handlers : pc[g] \in {"set_online", "receive", "broadcast"}}

\* C20: connect closes and evicts nothing: the connections registered
\* before it are registered after it, bound to the same transports, which
\* it leaves open; a connection whose receive loop has not ended is in the
\* connection map, whoever its user is mapped to; and an id leaves the
\* connection map only in the step in which its own handler calls
\* disconnect.
C20_SupersededStaysRegistered ==
    /\ [](\A g \in InLoop :
            /\ h_cid[g] \in Keys(active_connections)
            /\ ValueOf(active_connections, h_cid[g]) = g)
    /\ [][\A h \in Handlers :
            ConnectStep(h) =>
                /\ Keys(active_connections') = Keys(active_connections) \cup {h_cid'[h]}
                /\ \A c \in Keys(active_connections) :
                       ValueOf(active_connections', c) = ValueOf(active_connections, c)
                /\ client_open' = client_open
                /\ \A g \in Handlers \ {h} : pc'[g] = pc[g]]_vars
    /\ [][\A g \in Handlers :
            (h_cid[g] \in Keys(active_connections)
             /\ h_cid[g] \notin Keys(active_connections')) => DisconnectStep(g)]_vars

\* C20's case: a connection of a user who has since been mapped to a newer
\* connection is still registered, and got a broadcast that a third
\* connection sent after that.
C20_Witness ==
    /\ h_user[1] \in Users
    /\ h_user[1] = h_user[2]
    /\ user_connections[h_user[1]] = h_cid[2]
    /\ h_cid[1] \in Keys(active_connections)
    /\ h_cid[1] < h_cid[2]
    /\ h_cid[2] < h_cid[3]
    /\ h_data[3] = FrameMessage
    /\ Copies(1, 1) = 1

\* The broadcasts started by a receive loop for a "message" frame.
RelayBroadcasts == {b \in 1..Len(bhist) : bhist[b].message = 0}

\* C21: a "message" frame read on a connection is re-broadcast verbatim to
\* all registered connections, the sender's included: once its broadcast
\* has ended, every connection that was registered when the frame was read,
\* is still registered and has an open transport holds the received text,
\* unchanged.
C21_MessageRelayedToAll ==
    \A b \in RelayBroadcasts :
        bhist[b].status # "running" =>
            \A g \in bhist[b].snap :
                (client_open[g] /\ h_cid[g] \in Keys(active_connections)) =>
                    \E i \in 1..Len(sent[g]) :
                        /\ sent[g][i].bid = b
                        /\ sent[g][i].text = bhist[b].payload

\* Some step of the handler of websocket h can be taken.
HandlerStep(h) ==
    \/ WsConnect(h)
    \/ WsSetOnline(h)
    \/ \E data \in Frames : WsReceive(h, data)
    \/ WsBroadcastStep(h)
    \/ WsReceiveDisconnect(h)
    \/ WsSetOffline(h)

\* C22: presence follows the registry: the set-online write is awaited only
\* once the connection is admitted, the set-offline write only once it has
\* left the connection map, and the handler of an admitted connection whose
\* transport is closed does not come to rest before its set-offline write
\* has returned.
C22_PresenceFollowsRegistry ==
    \A h \in Handlers :
        /\ pc[h] = "set_online" => h_cid[h] \in Keys(active_connections)
        /\ pc[h] = "set_offline" => h_cid[h] \notin Keys(active_connections)
        /\ (h_cid[h] # NoConn /\ ~client_open[h] /\ ~ENABLED HandlerStep(h))
               => pc[h] = "done"

\* No websocket handler is between two of its steps (each waits for a
\* frame, has not started or has ended) and no HTTP request is being served.
Quiescent ==
    /\ \A h \in Handlers : pc[h] \in {"start", "receive", "done", "crashed"}
    /\ \A r \in Reqs : req[r].pc = "idle"

\* The connections of user u that are in the connection map, with an open
\* transport and a handler in its receive loop.
LiveConnections(u) ==
    {h \in Handlers : /\ h_user[h] = u
                      /\ pc[h] = "receive"
                      /\ client_open[h]
                      /\ h_cid[h] \in Keys(active_connections)}

\* C23: in every quiescent state, a stored user who still has an open
\* connection in the connection map is marked online.
C23_OnlineWhileConnected ==
    Quiescent =>
        \A i \in 1..Len(db_users) :
            LiveConnections(db_users[i].id) # {} => db_users[i].is_online

\* C24: once a logout has been performed with a token, the store holds no
\* session record of that token and every later gated request that presents
\* it gets no identity from its session lookup, while a token of another login with which no logout was
\* performed, and which has not expired, still gets its user.
C24_LoggedOutTokenRejected ==
    /\ [][\A r \in HttpReqs :
            LogoutDeleteStep(r) => SessionsOf(db_sessions', req[r].token) = 0]_vars
    /\ [][\A r \in HttpReqs :
            (SessionStep(r) /\ req[r].token \in revoked) => Unauthenticated(r)]_vars
    /\ [][\A r \in HttpReqs :
            (/\ SessionStep(r)
             /\ revoked # {}
             /\ req[r].token \in issued \ revoked
             /\ req[r].token.exp >= now)
            => req'[r].current_user = req[r].token.uid]_vars

\* C25: no two stored users share an email or a username, also when register
\* requests are interleaved between the existence check and the insert.
C25_UniqueEmailsAndUsernames ==
    \A i, j \in 1..Len(db_users) :
        i # j => /\ db_users[i].email # db_users[j].email
                 /\ db_users[i].username # db_users[j].username

\* C26: each connection id stored in the user->connection mapping is a key
\* of the connection map: no user is mapped to an evicted connection.
C26_MappingPointsAtRegistered ==
    \A u \in Users :
        user_connections[u] # NoConn => user_connections[u] \in Keys(active_connections)

\* A connection has been evicted by its handler's disconnect while a user is
\* mapped to a connection that was admitted later.
C26_Witness ==
    \E h \in Handlers, u \in Users :
        /\ pc[h] \in {"set_offline", "done"}
        /\ h_cid[h] # NoConn
        /\ h_cid[h] \notin Keys(active_connections)
        /\ user_connections[u] # NoConn
        /\ user_connections[u] > h_cid[h]

====
